---- MODULE Spec2Model ----
(***************************************************************************)
(* A model of go-sigparser (src/sigparser.go): the byte cursor, the        *)
(* recursive-descent grammar for parameters, signatures and structs, the   *)
(* kind-specific validation, the Kind classifier and the String printers.  *)
(*                                                                         *)
(* Texts are TLA+ strings; a byte is a string of length one.  The cursor   *)
(* position is 0-based as in the source: the byte under the cursor is      *)
(* SubSeq(in, pos + 1, pos + 1).  Every parse* operator takes the input    *)
(* and the cursor position and returns the new position with its result,   *)
(* which is how the model threads the mutable field parser.pos.            *)
(***************************************************************************)
EXTENDS Integers, Sequences, FiniteSets, TLC

VARIABLES in, call, kind, res, text, back

vars == <<in, call, kind, res, text, back>>

-----------------------------------------------------------------------------
(* Enumerations of the source.                                             *)

UnknownKind == 0
FunctionKind == 1
ConstructorKind == 2
FallbackKind == 3
ReceiveKind == 4
EventKind == 5
ErrorKind == 6

SignatureKinds == UnknownKind..ErrorKind

UnspecifiedLocation == 0
Storage == 1
CallData == 2
Memory == 3

InvalidInput == 0
TypeInput == 1
ArrayInput == 2
TupleInput == 3
StructDefinitionInput == 4
FunctionSignatureInput == 5
ConstructorSignatureInput == 6
FallbackSignatureInput == 7
ReceiveSignatureInput == 8
EventSignatureInput == 9
ErrorSignatureInput == 10

\* The zero values Parameter{} and Signature{}.
EmptyParameter ==
    [Name |-> "", Type |-> "", Tuple |-> <<>>, Arrays |-> <<>>,
     Indexed |-> FALSE, DataLocation |-> UnspecifiedLocation]

EmptySignature ==
    [Kind |-> UnknownKind, Name |-> "", Inputs |-> <<>>, Outputs |-> <<>>,
     Modifiers |-> <<>>]

-----------------------------------------------------------------------------
(* Character classes.                                                      *)

isDigit(c) == c \in {"0", "1", "2", "3", "4", "5", "6", "7", "8", "9"}

isAlpha(c) ==
    c \in {"a", "b", "c", "d", "e", "f", "g", "h", "i", "j", "k", "l", "m",
           "n", "o", "p", "q", "r", "s", "t", "u", "v", "w", "x", "y", "z",
           "A", "B", "C", "D", "E", "F", "G", "H", "I", "J", "K", "L", "M",
           "N", "O", "P", "Q", "R", "S", "T", "U", "V", "W", "X", "Y", "Z"}

\* isWhitespace that knows the space and the tab but not the newline.
isWhitespaceNoNewline(c) == c \in {" ", "\t"}

isWhitespace(c) == c \in {" ", "\t", "\n"}

isIdentifierSymbol(c) == c \in {"$", "_"}

-----------------------------------------------------------------------------
(* The cursor.                                                             *)

\* p.in[a:b]
Slice(s, a, b) == SubSeq(s, a + 1, b)

hasNext(s, pos) == pos < Len(s)

peek(s, pos) == SubSeq(s, pos + 1, pos + 1)

peekByte(s, pos, b) ==
    IF pos >= Len(s) THEN FALSE ELSE peek(s, pos) = b

peekBytes(s, pos, b) ==
    IF pos + Len(b) > Len(s) THEN FALSE ELSE Slice(s, pos, pos + Len(b)) = b

\* Body(v) with v evaluated once: a local variable of the source.
With(v, Body(_)) == CHOOSE r \in {Body(x) : x \in {v}} : TRUE

\* readByte and readBytes advance the cursor when they match: the callers
\* below add 1 or Len(b) to the position on the branch where they matched.

RECURSIVE parseWhitespace(_, _)
parseWhitespace(s, pos) ==
    IF hasNext(s, pos) /\ isWhitespace(peek(s, pos))
    THEN parseWhitespace(s, pos + 1)
    ELSE pos

\* The scan loop shared by parseName and parseElementaryType: start is the
\* position the scan began at, the result is the position it stops at.
RECURSIVE scanIdentifier(_, _, _)
scanIdentifier(s, start, pos) ==
    IF ~hasNext(s, pos) THEN pos
    ELSE LET b == peek(s, pos) IN
         IF start = pos /\ (isAlpha(b) \/ isIdentifierSymbol(b))
         THEN scanIdentifier(s, start, pos + 1)
         ELSE IF start # pos /\ (isAlpha(b) \/ isDigit(b) \/ isIdentifierSymbol(b))
         THEN scanIdentifier(s, start, pos + 1)
         ELSE pos

\* parseName: the new position; the name is Slice(s, pos, parseName(s, pos)).
parseName(s, pos) == scanIdentifier(s, pos, pos)

RECURSIVE scanDigits(_, _)
scanDigits(s, pos) ==
    IF hasNext(s, pos) /\ isDigit(peek(s, pos))
    THEN scanDigits(s, pos + 1)
    ELSE pos

\* onlyWhitespaceOrDelimiterLeft that takes ";" for a byte of the construct.
onlyWhitespaceLeft(s, pos) ==
    \A i \in pos..(Len(s) - 1) : isWhitespace(peek(s, i))

onlyWhitespaceOrDelimiterLeft(s, pos) ==
    \A i \in pos..(Len(s) - 1) : isWhitespace(peek(s, i)) \/ peek(s, i) = ";"

-----------------------------------------------------------------------------
(* Numbers and array suffixes.                                             *)

Digits == "0123456789"

DigitValue(c) == CHOOSE d \in 0..9 : SubSeq(Digits, d + 1, d + 1) = c

\* strconv.Itoa for n >= 0 (array bounds are positive).
RECURSIVE Itoa(_)
Itoa(n) ==
    IF n < 10 THEN SubSeq(Digits, n + 1, n + 1)
    ELSE Itoa(n \div 10) \o SubSeq(Digits, (n % 10) + 1, (n % 10) + 1)

RECURSIVE StripZeros(_)
StripZeros(d) ==
    IF Len(d) > 1 /\ Head(d) = "0" THEN StripZeros(Tail(d)) ELSE d

\* a > b for two digit strings of the same length.
RECURSIVE DigitsGreater(_, _)
DigitsGreater(a, b) ==
    IF a = "" THEN FALSE
    ELSE IF Head(a) # Head(b) THEN DigitValue(Head(a)) > DigitValue(Head(b))
    ELSE DigitsGreater(Tail(a), Tail(b))

\* The largest value of int on a 64-bit build, in decimal.
MaxIntDigits == "9223372036854775807"

RECURSIVE DecimalValue(_)
DecimalValue(d) ==
    IF d = "" THEN 0
    ELSE DecimalValue(SubSeq(d, 1, Len(d) - 1)) * 10
         + DigitValue(SubSeq(d, Len(d), Len(d)))

\* strconv.ParseInt(d, 10, 0) on a non-empty string of digits: a range error
\* when the value does not fit int, else the value.
ParseInt(d) ==
    With(StripZeros(d), LAMBDA z :
        IF Len(z) > Len(MaxIntDigits)
           \/ (Len(z) = Len(MaxIntDigits) /\ DigitsGreater(z, MaxIntDigits))
        THEN [err |-> TRUE, n |-> 0]
        ELSE [err |-> FALSE, n |-> DecimalValue(z)])

parseNumber(s, pos) ==
    With(scanDigits(s, pos), LAMBDA end :
        IF pos = end THEN [err |-> FALSE, pos |-> end, n |-> 0, ok |-> FALSE]
        ELSE With(ParseInt(Slice(s, pos, end)), LAMBDA v :
                 IF v.err THEN [err |-> TRUE, pos |-> end, n |-> 0, ok |-> FALSE]
                 ELSE [err |-> FALSE, pos |-> end, n |-> v.n, ok |-> TRUE]))

\* parseArrayLoop that rejects only the bounds below zero.
RECURSIVE parseArrayLoopZero(_, _, _)
parseArrayLoopZero(s, pos, arr) ==
    IF ~hasNext(s, pos) THEN [err |-> FALSE, pos |-> pos, arr |-> arr]
    ELSE IF peekByte(s, pos, "[")
    THEN With(parseNumber(s, pos + 1), LAMBDA num :
             IF num.err
             THEN [err |-> TRUE, pos |-> num.pos, peek |-> FALSE, arr |-> <<>>]
             ELSE IF num.ok /\ num.n < 0
             THEN [err |-> TRUE, pos |-> num.pos, peek |-> FALSE, arr |-> <<>>]
             ELSE IF ~hasNext(s, num.pos)
             THEN [err |-> TRUE, pos |-> num.pos, peek |-> FALSE, arr |-> <<>>]
             ELSE IF ~peekByte(s, num.pos, "]")
             THEN [err |-> TRUE, pos |-> num.pos, peek |-> TRUE, arr |-> <<>>]
             ELSE parseArrayLoopZero(s, num.pos + 1,
                                     Append(arr, IF num.ok THEN num.n ELSE -1)))
    ELSE [err |-> FALSE, pos |-> pos, arr |-> arr]

RECURSIVE parseArrayLoop(_, _, _)
parseArrayLoop(s, pos, arr) ==
    IF ~hasNext(s, pos) THEN [err |-> FALSE, pos |-> pos, arr |-> arr]
    ELSE IF peekByte(s, pos, "[")
    THEN With(parseNumber(s, pos + 1), LAMBDA num :
             IF num.err
             THEN [err |-> TRUE, pos |-> num.pos, peek |-> FALSE, arr |-> <<>>]
             ELSE IF num.ok /\ num.n <= 0
             THEN [err |-> TRUE, pos |-> num.pos, peek |-> FALSE, arr |-> <<>>]
             ELSE IF ~hasNext(s, num.pos)
             THEN [err |-> TRUE, pos |-> num.pos, peek |-> FALSE, arr |-> <<>>]
             ELSE IF ~peekByte(s, num.pos, "]")
             THEN [err |-> TRUE, pos |-> num.pos, peek |-> TRUE, arr |-> <<>>]
             ELSE parseArrayLoop(s, num.pos + 1,
                                 Append(arr, IF num.ok THEN num.n ELSE -1)))
    ELSE [err |-> FALSE, pos |-> pos, arr |-> arr]

parseArray(s, pos) == parseArrayLoop(s, pos, <<>>)

-----------------------------------------------------------------------------
(* The parameter grammar.                                                  *)

\* An error returned with the cursor at pos; peeked tells whether its message
\* was built from p.peek(), the byte at the cursor.
ParamError(pos, peeked) ==
    [err |-> TRUE, pos |-> pos, peek |-> peeked, arg |-> EmptyParameter]

\* The array declaration after a type, if any: arg is the parameter parsed
\* so far and pos the position after it.
parseArraySuffix(s, pos, arg) ==
    IF peekByte(s, pos, "[")
    THEN With(parseArray(s, pos), LAMBDA a :
             IF a.err THEN ParamError(a.pos, a.peek)
             ELSE [err |-> FALSE, pos |-> a.pos, arg |-> [arg EXCEPT !.Arrays = a.arr]])
    ELSE [err |-> FALSE, pos |-> pos, arg |-> arg]

parseElementaryType(s, pos) ==
    With(scanIdentifier(s, pos, pos), LAMBDA end :
        parseArraySuffix(s, end, [EmptyParameter EXCEPT !.Type = Slice(s, pos, end)]))

\* The switch of parseParameter on the flag keywords: the parameter with its
\* flag set and the position after the keyword, has telling whether one was
\* read.
parseFlag(s, pos, arg) ==
    IF peekBytes(s, pos, "indexed")
    THEN [has |-> TRUE, pos |-> pos + Len("indexed"),
          arg |-> [arg EXCEPT !.Indexed = TRUE]]
    ELSE IF peekBytes(s, pos, "storage")
    THEN [has |-> TRUE, pos |-> pos + Len("storage"),
          arg |-> [arg EXCEPT !.DataLocation = Storage]]
    ELSE IF peekBytes(s, pos, "memory")
    THEN [has |-> TRUE, pos |-> pos + Len("memory"),
          arg |-> [arg EXCEPT !.DataLocation = Memory]]
    ELSE IF peekBytes(s, pos, "calldata")
    THEN [has |-> TRUE, pos |-> pos + Len("calldata"),
          arg |-> [arg EXCEPT !.DataLocation = CallData]]
    ELSE [has |-> FALSE, pos |-> pos, arg |-> arg]

\* arg with the name that starts at pos.
parseParameterName(s, pos, arg) ==
    With(parseName(s, pos), LAMBDA end :
        [err |-> FALSE, pos |-> end, arg |-> [arg EXCEPT !.Name = Slice(s, pos, end)]])

\* The flag and name part of parseParameter, after the type arg was parsed
\* and the cursor stands at pos.
parseFlagAndName(s, pos, arg) ==
    IF hasNext(s, pos) /\ isWhitespace(peek(s, pos))
    THEN With(parseFlag(s, parseWhitespace(s, pos), arg), LAMBDA flagged :
             IF flagged.has
             THEN IF hasNext(s, flagged.pos) /\ isWhitespace(peek(s, flagged.pos))
                  THEN With(parseWhitespace(s, flagged.pos), LAMBDA p2 :
                           parseParameterName(s, p2, flagged.arg))
                  ELSE [err |-> FALSE, pos |-> flagged.pos, arg |-> flagged.arg]
             ELSE parseParameterName(s, flagged.pos, flagged.arg))
    ELSE [err |-> FALSE, pos |-> pos, arg |-> arg]

RECURSIVE parseParameter(_, _), parseCompositeType(_, _), parseComponents(_, _, _)

\* The component loop of parseCompositeType: tuple holds the components
\* appended so far.
parseComponents(s, pos, tuple) ==
    With(parseParameter(s, parseWhitespace(s, pos)), LAMBDA comp :
        IF comp.err
        THEN [err |-> TRUE, pos |-> comp.pos, peek |-> comp.peek, tuple |-> <<>>]
        ELSE With(parseWhitespace(s, comp.pos), LAMBDA p2 :
                 IF peekByte(s, p2, ",")
                 THEN parseComponents(s, p2 + 1, Append(tuple, comp.arg))
                 ELSE IF peekByte(s, p2, ")")
                 THEN [err |-> FALSE, pos |-> p2 + 1, tuple |-> Append(tuple, comp.arg)]
                 ELSE IF ~hasNext(s, p2)
                 THEN [err |-> TRUE, pos |-> p2, peek |-> FALSE, tuple |-> <<>>]
                 ELSE [err |-> TRUE, pos |-> p2, peek |-> TRUE, tuple |-> <<>>]))

\* parseCompositeType after its opening "(" or "tuple(", which ends at pos.
parseCompositeBody(s, pos) ==
    With(parseWhitespace(s, pos), LAMBDA p1 :
        With(IF peekByte(s, p1, ")")
             THEN [err |-> FALSE, pos |-> p1 + 1, tuple |-> <<>>]
             ELSE parseComponents(s, p1, <<>>), LAMBDA comps :
            IF comps.err THEN ParamError(comps.pos, comps.peek)
            ELSE parseArraySuffix(s, comps.pos,
                                  [EmptyParameter EXCEPT !.Tuple = comps.tuple])))

\* parseCompositeType that reads "(" only, not "tuple(".
parseCompositeTypeNoKeyword(s, pos) ==
    IF peekByte(s, pos, "(") THEN parseCompositeBody(s, pos + 1)
    ELSE IF ~hasNext(s, pos) THEN ParamError(pos, FALSE)
    ELSE ParamError(pos, TRUE)

parseCompositeType(s, pos) ==
    IF peekByte(s, pos, "(") THEN parseCompositeBody(s, pos + 1)
    ELSE IF peekBytes(s, pos, "tuple(") THEN parseCompositeBody(s, pos + Len("tuple("))
    ELSE IF ~hasNext(s, pos) THEN ParamError(pos, FALSE)
    ELSE ParamError(pos, TRUE)

parseParameter(s, pos) ==
    IF ~hasNext(s, pos) THEN ParamError(pos, FALSE)
    ELSE With(IF peekByte(s, pos, "(") \/ peekBytes(s, pos, "tuple(")
              THEN parseCompositeType(s, pos)
              ELSE IF isAlpha(peek(s, pos)) \/ isIdentifierSymbol(peek(s, pos))
              THEN parseElementaryType(s, pos)
              ELSE ParamError(pos, TRUE), LAMBDA typ :
             IF typ.err THEN typ
             ELSE parseFlagAndName(s, typ.pos, typ.arg))

-----------------------------------------------------------------------------
(* The signature grammar.                                                  *)

SigError(pos, peeked) ==
    [err |-> TRUE, pos |-> pos, peek |-> peeked, sig |-> EmptySignature]

\* The kind the keyword at the cursor names and the position after it.
parseSignatureKind(s, pos) ==
    IF peekBytes(s, pos, "function")
    THEN [kind |-> FunctionKind, pos |-> pos + Len("function")]
    ELSE IF peekBytes(s, pos, "constructor")
    THEN [kind |-> ConstructorKind, pos |-> pos + Len("constructor")]
    ELSE IF peekBytes(s, pos, "fallback")
    THEN [kind |-> FallbackKind, pos |-> pos + Len("fallback")]
    ELSE IF peekBytes(s, pos, "receive")
    THEN [kind |-> ReceiveKind, pos |-> pos + Len("receive")]
    ELSE IF peekBytes(s, pos, "event")
    THEN [kind |-> EventKind, pos |-> pos + Len("event")]
    ELSE IF peekBytes(s, pos, "error")
    THEN [kind |-> ErrorKind, pos |-> pos + Len("error")]
    ELSE [kind |-> UnknownKind, pos |-> pos]

\* The list a composite type at the cursor gives, which must not be an array.
parseList(s, pos) ==
    With(parseCompositeType(s, pos), LAMBDA args :
        IF args.err
        THEN [err |-> TRUE, pos |-> args.pos, peek |-> args.peek, list |-> <<>>]
        ELSE IF Len(args.arg.Arrays) > 0
        THEN [err |-> TRUE, pos |-> args.pos, peek |-> FALSE, list |-> <<>>]
        ELSE [err |-> FALSE, pos |-> args.pos, list |-> args.arg.Tuple])

parseInputs(s, pos) ==
    IF peekByte(s, pos, "(") THEN parseList(s, pos)
    ELSE [err |-> FALSE, pos |-> pos, list |-> <<>>]

\* parseOutputs without the test for the end of the input after the returns
\* keyword: the message is always built from the byte at the cursor.
parseOutputsNoEnd(s, pos) ==
    With(parseWhitespace(s, pos), LAMBDA p1 :
        With(peekBytes(s, p1, "returns"), LAMBDA returnsKeyword :
            With(IF returnsKeyword THEN parseWhitespace(s, p1 + Len("returns")) ELSE p1,
                 LAMBDA p2 :
                IF returnsKeyword /\ ~peekByte(s, p2, "(")
                THEN [err |-> TRUE, pos |-> p2, peek |-> TRUE, list |-> <<>>]
                ELSE IF peekByte(s, p2, "(") THEN parseList(s, p2)
                ELSE [err |-> FALSE, pos |-> p2, list |-> <<>>])))

\* parseOutputs that reads an output list only after the returns keyword.
parseOutputsKeywordOnly(s, pos) ==
    With(parseWhitespace(s, pos), LAMBDA p1 :
        With(peekBytes(s, p1, "returns"), LAMBDA returnsKeyword :
            With(IF returnsKeyword THEN parseWhitespace(s, p1 + Len("returns")) ELSE p1,
                 LAMBDA p2 :
                IF returnsKeyword /\ ~peekByte(s, p2, "(")
                THEN IF ~hasNext(s, p2)
                     THEN [err |-> TRUE, pos |-> p2, peek |-> FALSE, list |-> <<>>]
                     ELSE [err |-> TRUE, pos |-> p2, peek |-> TRUE, list |-> <<>>]
                ELSE IF returnsKeyword THEN parseList(s, p2)
                ELSE [err |-> FALSE, pos |-> p2, list |-> <<>>])))

parseOutputs(s, pos) ==
    With(parseWhitespace(s, pos), LAMBDA p1 :
        With(peekBytes(s, p1, "returns"), LAMBDA returnsKeyword :
            With(IF returnsKeyword THEN parseWhitespace(s, p1 + Len("returns")) ELSE p1,
                 LAMBDA p2 :
                IF returnsKeyword /\ ~peekByte(s, p2, "(")
                THEN IF ~hasNext(s, p2)
                     THEN [err |-> TRUE, pos |-> p2, peek |-> FALSE, list |-> <<>>]
                     ELSE [err |-> TRUE, pos |-> p2, peek |-> TRUE, list |-> <<>>]
                ELSE IF peekByte(s, p2, "(") THEN parseList(s, p2)
                ELSE [err |-> FALSE, pos |-> p2, list |-> <<>>])))

\* parseModifiersLoop that does not leave the loop on an empty name.
RECURSIVE parseModifiersLoopEmpty(_, _, _)
parseModifiersLoopEmpty(s, pos, mods) ==
    IF ~hasNext(s, pos) \/ peekByte(s, pos, "(") \/ peekBytes(s, pos, "returns")
    THEN [pos |-> pos, mods |-> mods]
    ELSE With(parseName(s, pos), LAMBDA end :
             IF ~hasNext(s, end) \/ ~isWhitespace(peek(s, end))
             THEN [pos |-> end, mods |-> Append(mods, Slice(s, pos, end))]
             ELSE With(parseWhitespace(s, end), LAMBDA p2 :
                      parseModifiersLoopEmpty(s, p2, Append(mods, Slice(s, pos, end)))))

RECURSIVE parseModifiersLoop(_, _, _)
parseModifiersLoop(s, pos, mods) ==
    IF ~hasNext(s, pos) \/ peekByte(s, pos, "(") \/ peekBytes(s, pos, "returns")
    THEN [pos |-> pos, mods |-> mods]
    ELSE With(parseName(s, pos), LAMBDA end :
             IF Len(Slice(s, pos, end)) = 0 THEN [pos |-> end, mods |-> mods]
             ELSE IF ~hasNext(s, end) \/ ~isWhitespace(peek(s, end))
             THEN [pos |-> end, mods |-> Append(mods, Slice(s, pos, end))]
             ELSE With(parseWhitespace(s, end), LAMBDA p2 :
                      parseModifiersLoop(s, p2, Append(mods, Slice(s, pos, end)))))

parseModifiers(s, pos) == parseModifiersLoop(s, pos, <<>>)

\* parseSignature from the modifiers on: sig holds the kind, the name and
\* the inputs, and pos is the position after the inputs.
parseSignatureTail(s, pos, sig) ==
    With(parseModifiers(s, parseWhitespace(s, pos)), LAMBDA mods :
        With(parseOutputs(s, parseWhitespace(s, mods.pos)), LAMBDA outputs :
            IF outputs.err THEN SigError(outputs.pos, outputs.peek)
            ELSE [err |-> FALSE, pos |-> outputs.pos,
                  sig |-> [sig EXCEPT !.Modifiers = mods.mods,
                                      !.Outputs = outputs.list]]))

\* parseSignature from the name on: sigKind is the kind that was settled and
\* pos the position after the keyword.
parseSignatureBody(s, pos, sigKind) ==
    With(parseWhitespace(s, pos), LAMBDA p1 :
        With(parseName(s, p1), LAMBDA p2 :
            With(parseInputs(s, parseWhitespace(s, p2)), LAMBDA inputs :
                IF inputs.err THEN SigError(inputs.pos, inputs.peek)
                ELSE parseSignatureTail(s, inputs.pos,
                         [EmptySignature EXCEPT !.Kind = sigKind,
                                                !.Name = Slice(s, p1, p2),
                                                !.Inputs = inputs.list]))))

\* parseSignatureSyntax without the comparison of the keyword's kind with
\* the kind the caller gave.
parseSignatureSyntaxAnyKind(s, pos, k) ==
    With(parseSignatureKind(s, pos), LAMBDA kw :
        With(IF kw.kind = UnknownKind THEN k ELSE kw.kind, LAMBDA sigKind :
            parseSignatureBody(s, kw.pos, sigKind)))

\* parseSignature up to the validation: kind, name, inputs, modifiers, outputs.
parseSignatureSyntax(s, pos, k) ==
    With(parseSignatureKind(s, pos), LAMBDA kw :
        With(IF kw.kind = UnknownKind THEN k ELSE kw.kind, LAMBDA sigKind :
            IF k # UnknownKind /\ sigKind # k THEN SigError(kw.pos, FALSE)
            ELSE parseSignatureBody(s, kw.pos, sigKind)))


\* validConstructor without its check of the outputs.
validConstructorNoOutputs(sig) ==
    /\ Len(sig.Name) = 0
    /\ Len(sig.Modifiers) = 0

\* validReceive without its check of the inputs.
validReceiveNoInputs(sig) ==
    /\ Len(sig.Name) = 0
    /\ Len(sig.Outputs) = 0

\* validEvent without its loop over the inputs' data locations.
validEventNoLocation(sig) ==
    /\ Len(sig.Inputs) # 0
    /\ Len(sig.Outputs) = 0
    /\ \/ Len(sig.Modifiers) = 0
       \/ (Len(sig.Modifiers) = 1 /\ sig.Modifiers[1] = "anonymous")

\* validError without its check of the modifiers.
validErrorNoModifiers(sig) ==
    /\ Len(sig.Outputs) = 0
    /\ \A i \in 1..Len(sig.Inputs) : sig.Inputs[i].DataLocation = UnspecifiedLocation

\* validIndexed without its loop over the outputs.
validIndexedInputsOnly(sig) ==
    (sig.Kind # UnknownKind /\ sig.Kind # EventKind)
        => \A i \in 1..Len(sig.Inputs) : ~sig.Inputs[i].Indexed

\* The validation of parseSignature, one operator per case of the switch:
\* TRUE when the signature passes.
validConstructor(sig) ==
    /\ Len(sig.Name) = 0
    /\ Len(sig.Modifiers) = 0
    /\ Len(sig.Outputs) = 0

validFallback(sig) ==
    LET validInOut == /\ Len(sig.Inputs) = 1
                      /\ sig.Inputs[1].Type = "bytes"
                      /\ Len(sig.Outputs) = 1
                      /\ sig.Outputs[1].Type = "bytes"
    IN  /\ Len(sig.Name) = 0
        /\ ~(~validInOut /\ Len(sig.Inputs) > 0)
        /\ ~(~validInOut /\ Len(sig.Outputs) > 0)

validReceive(sig) ==
    /\ Len(sig.Name) = 0
    /\ Len(sig.Inputs) = 0
    /\ Len(sig.Outputs) = 0

validEvent(sig) ==
    /\ Len(sig.Inputs) # 0
    /\ Len(sig.Outputs) = 0
    /\ \/ Len(sig.Modifiers) = 0
       \/ (Len(sig.Modifiers) = 1 /\ sig.Modifiers[1] = "anonymous")
    /\ \A i \in 1..Len(sig.Inputs) : sig.Inputs[i].DataLocation = UnspecifiedLocation

validError(sig) ==
    /\ Len(sig.Outputs) = 0
    /\ Len(sig.Modifiers) = 0
    /\ \A i \in 1..Len(sig.Inputs) : sig.Inputs[i].DataLocation = UnspecifiedLocation

validIndexed(sig) ==
    /\ (sig.Kind # UnknownKind /\ sig.Kind # EventKind)
          => \A i \in 1..Len(sig.Inputs) : ~sig.Inputs[i].Indexed
    /\ \A i \in 1..Len(sig.Outputs) : ~sig.Outputs[i].Indexed

validSignature(sig) ==
    /\ sig.Kind = ConstructorKind => validConstructor(sig)
    /\ sig.Kind = FallbackKind => validFallback(sig)
    /\ sig.Kind = ReceiveKind => validReceive(sig)
    /\ sig.Kind = EventKind => validEvent(sig)
    /\ sig.Kind = ErrorKind => validError(sig)
    /\ validIndexed(sig)

parseSignature(s, pos, k) ==
    With(parseSignatureSyntax(s, pos, k), LAMBDA syn :
        IF syn.err THEN syn
        ELSE IF ~validSignature(syn.sig) THEN SigError(syn.pos, FALSE)
        ELSE syn)

-----------------------------------------------------------------------------
(* The struct grammar.                                                     *)

\* One field of parseStruct from its name on: field is the parsed type and
\* pos the position after it.  The result is the field and the position
\* after its ";".
parseFieldName(s, pos, field) ==
    With(parseWhitespace(s, pos), LAMBDA p2 :
        With(parseName(s, p2), LAMBDA p3 :
            IF Len(Slice(s, p2, p3)) = 0 THEN ParamError(p3, FALSE)
            ELSE With(parseWhitespace(s, p3), LAMBDA p4 :
                     IF ~peekByte(s, p4, ";")
                     THEN IF ~hasNext(s, p4) THEN ParamError(p4, FALSE)
                          ELSE ParamError(p4, TRUE)
                     ELSE [err |-> FALSE, pos |-> p4 + 1,
                           arg |-> [field EXCEPT !.Name = Slice(s, p2, p3)]])))

RECURSIVE parseFields(_, _, _)
parseFields(s, pos, tuple) ==
    With(parseWhitespace(s, pos), LAMBDA p1 :
        IF peekByte(s, p1, "}") THEN [err |-> FALSE, pos |-> p1 + 1, tuple |-> tuple]
        ELSE With(parseElementaryType(s, p1), LAMBDA typ :
                 IF typ.err
                 THEN [err |-> TRUE, pos |-> typ.pos, peek |-> typ.peek, tuple |-> <<>>]
                 ELSE With(parseFieldName(s, typ.pos, typ.arg), LAMBDA field :
                          IF field.err
                          THEN [err |-> TRUE, pos |-> field.pos, peek |-> field.peek,
                                tuple |-> <<>>]
                          ELSE parseFields(s, field.pos, Append(tuple, field.arg)))))

parseStruct(s, pos) ==
    IF ~peekBytes(s, pos, "struct")
    THEN IF ~hasNext(s, pos) THEN ParamError(pos, FALSE) ELSE ParamError(pos, TRUE)
    ELSE With(parseWhitespace(s, pos + Len("struct")), LAMBDA p1 :
             With(parseName(s, p1), LAMBDA p2 :
                 With(parseWhitespace(s, p2), LAMBDA p3 :
                     IF ~peekByte(s, p3, "{")
                     THEN IF ~hasNext(s, p3) THEN ParamError(p3, FALSE)
                          ELSE ParamError(p3, TRUE)
                     ELSE With(parseFields(s, p3 + 1, <<>>), LAMBDA fields :
                              IF fields.err THEN ParamError(fields.pos, fields.peek)
                              ELSE [err |-> FALSE, pos |-> fields.pos,
                                    arg |-> [EmptyParameter
                                               EXCEPT !.Name = Slice(s, p1, p2),
                                                      !.Tuple = fields.tuple]]))))

-----------------------------------------------------------------------------
(* The entry points.  A result is [err, val]: on an error val is the zero  *)
(* value, as the source returns it.                                        *)

ParseSignatureAs(k, signature) ==
    With(parseSignature(signature, parseWhitespace(signature, 0), k), LAMBDA r :
        IF r.err THEN [err |-> TRUE, val |-> EmptySignature]
        ELSE IF ~onlyWhitespaceOrDelimiterLeft(signature, r.pos)
        THEN [err |-> TRUE, val |-> EmptySignature]
        ELSE [err |-> FALSE, val |-> r.sig])

ParseSignature(signature) == ParseSignatureAs(UnknownKind, signature)

ParseParameter(signature) ==
    With(parseParameter(signature, parseWhitespace(signature, 0)), LAMBDA r :
        IF r.err THEN [err |-> TRUE, val |-> EmptyParameter]
        ELSE IF ~onlyWhitespaceOrDelimiterLeft(signature, r.pos)
        THEN [err |-> TRUE, val |-> EmptyParameter]
        ELSE [err |-> FALSE, val |-> r.arg])

ParseStruct(definition) ==
    With(parseStruct(definition, parseWhitespace(definition, 0)), LAMBDA r :
        IF r.err THEN [err |-> TRUE, val |-> EmptyParameter]
        ELSE IF ~onlyWhitespaceOrDelimiterLeft(definition, r.pos)
        THEN [err |-> TRUE, val |-> EmptyParameter]
        ELSE [err |-> FALSE, val |-> r.arg])

SignatureInputKind(k) ==
    CASE k = FunctionKind \/ k = UnknownKind -> FunctionSignatureInput
      [] k = ConstructorKind -> ConstructorSignatureInput
      [] k = FallbackKind -> FallbackSignatureInput
      [] k = ReceiveKind -> ReceiveSignatureInput
      [] k = EventKind -> EventSignatureInput
      [] k = ErrorKind -> ErrorSignatureInput

\* The third attempt of Kind, from the saved position pos.
KindStruct(input, pos) ==
    With(parseStruct(input, pos), LAMBDA str :
        IF ~str.err /\ onlyWhitespaceOrDelimiterLeft(input, str.pos)
        THEN StructDefinitionInput
        ELSE InvalidInput)

\* The second attempt of Kind, from the saved position pos.
KindSignature(input, pos) ==
    With(parseSignature(input, pos, UnknownKind), LAMBDA sig :
        IF ~sig.err /\ onlyWhitespaceOrDelimiterLeft(input, sig.pos)
        THEN SignatureInputKind(sig.sig.Kind)
        ELSE KindStruct(input, pos))

\* Kind with the first two attempts swapped: the signature grammar is tried
\* before the parameter grammar.
KindParameterSecond(input, pos) ==
    With(parseParameter(input, pos), LAMBDA param :
        IF ~param.err /\ onlyWhitespaceOrDelimiterLeft(input, param.pos)
        THEN IF Len(param.arg.Arrays) > 0 THEN ArrayInput
             ELSE IF Len(param.arg.Tuple) > 0 THEN TupleInput
             ELSE TypeInput
        ELSE KindStruct(input, pos))

KindSignatureFirst(input) ==
    With(parseWhitespace(input, 0), LAMBDA pos :
        With(parseSignature(input, pos, UnknownKind), LAMBDA sig :
            IF ~sig.err /\ onlyWhitespaceOrDelimiterLeft(input, sig.pos)
            THEN SignatureInputKind(sig.sig.Kind)
            ELSE KindParameterSecond(input, pos)))

Kind(input) ==
    With(parseWhitespace(input, 0), LAMBDA pos :
        With(parseParameter(input, pos), LAMBDA param :
            IF ~param.err /\ onlyWhitespaceOrDelimiterLeft(input, param.pos)
            THEN IF Len(param.arg.Arrays) > 0 THEN ArrayInput
                 ELSE IF Len(param.arg.Tuple) > 0 THEN TupleInput
                 ELSE TypeInput
            ELSE KindSignature(input, pos)))

IsSignature(k) ==
    k \in {FunctionSignatureInput, ConstructorSignatureInput, FallbackSignatureInput,
           ReceiveSignatureInput, EventSignatureInput, ErrorSignatureInput}

\* IsParameter without the tuple classification.
IsParameterNoTuple(k) == k \in {TypeInput, ArrayInput}

IsParameter(k) == k \in {TypeInput, ArrayInput, TupleInput}

IsStruct(k) == k = StructDefinitionInput

-----------------------------------------------------------------------------
(* The cursor at the return of a call.  A cursor record is [pos, peek]:    *)
(* pos is p.pos when the call returns and peek tells whether the returned  *)
(* error's message was built from p.peek(), which reads p.in[p.pos].       *)

\* The cursor a grammar function returned with, r its result.
GrammarCursor(r) == [pos |-> r.pos, peek |-> r.err /\ r.peek]

\* The cursor an entry point returns with after its grammar function gave
\* r: when the grammar accepted and other bytes are left, the message of
\* the entry point reads the byte at the cursor.
EntryCursor(s, r) ==
    IF r.err THEN GrammarCursor(r)
    ELSE [pos |-> r.pos, peek |-> ~onlyWhitespaceOrDelimiterLeft(s, r.pos)]

ParseSignatureAsCursor(k, signature) ==
    EntryCursor(signature, parseSignature(signature, parseWhitespace(signature, 0), k))

ParseParameterCursor(signature) ==
    EntryCursor(signature, parseParameter(signature, parseWhitespace(signature, 0)))

ParseStructCursor(definition) ==
    EntryCursor(definition, parseStruct(definition, parseWhitespace(definition, 0)))

\* The cursors of the attempts Kind makes, in the order it makes them: an
\* attempt is followed by the next one when its grammar function failed or
\* left other bytes.
KindCursors(input) ==
    With(parseWhitespace(input, 0), LAMBDA pos :
        With(parseParameter(input, pos), LAMBDA param :
            IF ~param.err /\ onlyWhitespaceOrDelimiterLeft(input, param.pos)
            THEN <<GrammarCursor(param)>>
            ELSE With(parseSignature(input, pos, UnknownKind), LAMBDA sig :
                     IF ~sig.err /\ onlyWhitespaceOrDelimiterLeft(input, sig.pos)
                     THEN <<GrammarCursor(param), GrammarCursor(sig)>>
                     ELSE <<GrammarCursor(param), GrammarCursor(sig),
                            GrammarCursor(parseStruct(input, pos))>>)))

-----------------------------------------------------------------------------
(* The printers.                                                           *)

DataLocationString(d) ==
    CASE d = Storage -> "storage"
      [] d = CallData -> "calldata"
      [] d = Memory -> "memory"
      [] OTHER -> ""

RECURSIVE ArraysString(_)
ArraysString(arr) ==
    IF arr = <<>> THEN ""
    ELSE (IF Head(arr) = -1 THEN "[]" ELSE "[" \o Itoa(Head(arr)) \o "]")
         \o ArraysString(Tail(arr))

RECURSIVE ParameterString(_), ParametersString(_)

\* The loop both printers use for a list: the elements joined by ", ".
ParametersString(ps) ==
    IF ps = <<>> THEN ""
    ELSE ParameterString(Head(ps))
         \o (IF Len(ps) > 1 THEN ", " ELSE "")
         \o ParametersString(Tail(ps))

ParameterString(p) ==
    (IF Len(p.Type) > 0 THEN p.Type ELSE "(" \o ParametersString(p.Tuple) \o ")")
    \o ArraysString(p.Arrays)
    \o (IF p.Indexed THEN " indexed" ELSE "")
    \o (IF p.DataLocation \in {Storage, CallData, Memory}
        THEN " " \o DataLocationString(p.DataLocation) ELSE "")
    \o (IF Len(p.Name) > 0 THEN " " \o p.Name ELSE "")


\* ModifiersString that joins the modifiers with nothing between them.
RECURSIVE ModifiersStringNoSpace(_)
ModifiersStringNoSpace(ms) ==
    IF ms = <<>> THEN "" ELSE Head(ms) \o ModifiersStringNoSpace(Tail(ms))

RECURSIVE ModifiersString(_)
ModifiersString(ms) ==
    IF ms = <<>> THEN ""
    ELSE Head(ms) \o (IF Len(ms) > 1 THEN " " ELSE "") \o ModifiersString(Tail(ms))

\* Signature.String that writes the outputs without the returns keyword.
SignatureStringNoReturns(sig) ==
    (CASE sig.Kind = FunctionKind -> "function " \o sig.Name
       [] sig.Kind = ConstructorKind -> "constructor"
       [] sig.Kind = FallbackKind -> "fallback"
       [] sig.Kind = ReceiveKind -> "receive"
       [] sig.Kind = EventKind -> "event " \o sig.Name
       [] sig.Kind = ErrorKind -> "error " \o sig.Name
       [] OTHER -> sig.Name)
    \o "(" \o ParametersString(sig.Inputs) \o ")"
    \o (IF Len(sig.Modifiers) > 0 THEN " " \o ModifiersString(sig.Modifiers) ELSE "")
    \o (IF Len(sig.Outputs) > 0
        THEN " (" \o ParametersString(sig.Outputs) \o ")" ELSE "")

SignatureString(sig) ==
    (CASE sig.Kind = FunctionKind -> "function " \o sig.Name
       [] sig.Kind = ConstructorKind -> "constructor"
       [] sig.Kind = FallbackKind -> "fallback"
       [] sig.Kind = ReceiveKind -> "receive"
       [] sig.Kind = EventKind -> "event " \o sig.Name
       [] sig.Kind = ErrorKind -> "error " \o sig.Name
       [] OTHER -> sig.Name)
    \o "(" \o ParametersString(sig.Inputs) \o ")"
    \o (IF Len(sig.Modifiers) > 0 THEN " " \o ModifiersString(sig.Modifiers) ELSE "")
    \o (IF Len(sig.Outputs) > 0
        THEN " returns (" \o ParametersString(sig.Outputs) \o ")" ELSE "")

-----------------------------------------------------------------------------
(* The texts the entry points are called on.  They are built from the      *)
(* grammar's pieces, so that texts with nested tuples, array suffixes,     *)
(* flags, modifiers and output lists are reached with few characters, and  *)
(* they include texts the grammar or the validation rejects.               *)

\* The longest parameter list, tuple and struct body that is written out.
MaxParams == 2

\* The deepest nesting of tuples in a parameter.
MaxDepth == 1

\* The texts of 1..n elements of P, each followed by sep except the last
\* when last is FALSE.
RECURSIVE ListsOf(_, _, _)
ListsOf(P, n, sep) ==
    IF n = 0 THEN {}
    ELSE P \cup {l \o sep \o e : l \in ListsOf(P, n - 1, sep), e \in P}

LeafTypes == {"a", "bytes"}

ArrayTexts == {"", "[]", "[2]", "[][03]"}

FlagTexts == {"", " indexed", " storage", " memory", " calldata"}

LeafParams ==
    {t \o a \o f \o n : t \in LeafTypes, a \in ArrayTexts, f \in FlagTexts,
                        n \in {"", " x"}}

\* The parameters that lists of more than one element are made of.
SmallParams == {"a", "bytes memory x", "a[] indexed"}

FlatTuples ==
    {o \o l \o ")" : o \in {"(", "tuple("},
                     l \in {""} \cup ListsOf(SmallParams, MaxParams, ",")}

RECURSIVE NestedTuples(_)
NestedTuples(d) ==
    IF d <= 1 THEN FlatTuples
    ELSE FlatTuples
         \cup {"(" \o t \o e \o ")" : t \in NestedTuples(d - 1),
                                      e \in {"", "[] x", " indexed, a"}}

TupleParams ==
    {t \o a \o f : t \in NestedTuples(MaxDepth), a \in {"", "[2]"},
                   f \in {"", " memory x", " indexed"}}

\* A flag word run into the next identifier, a name that is a flag word, a
\* missing type, a bad array suffix, text after the parameter.
OddParams ==
    {"a indexedx", "a memoryx", "a indexed memory", "a memory indexed",
     "a x y", " a\t[1]", "a[0]", "a[", "a[1", "a[x]", "[1]", "1", "tuple", "tuple (a)",
     "(a", "(a,)", "(,a)", "a;", "\n(a) ;", "a $", "indexed", "memory memory"}

\* Tuples inside tuples, with array suffixes, flags and names after them.
DeepParams ==
    {"((a)[2] x, a)[] y", "((a), (bytes memory x, (a)[]) indexed) z",
     "(tuple(a) x, (a))", "(((a)))[2] memory x"}

ParameterTexts == LeafParams \cup TupleParams \cup OddParams \cup DeepParams

\* The keyword and name a signature text starts with.
HeadTexts ==
    {"f", "function f", "constructor", "fallback", "receive", "event f", "error f"}

OddHeadTexts ==
    {"", "function", "function  event", "constructor f", "fallback f", "receive f",
     "event", "error", "functionf", "errorf"}

ModifierTexts == {"", " view", " anonymous", " view pure"}

OutputTexts ==
    {"", "()", " returns ()", "(bytes)", " returns (bytes memory x)", "(bytes[])",
     "(a indexed)", " returns (a, a)", " returns"}

InputTexts ==
    {"", "()"} \cup {"(" \o l \o ")" : l \in ListsOf(SmallParams, MaxParams, ", ")}

\* Every head with one parameter of any shape, and no more.
RichSignatures == {h \o "(" \o p \o ")" : h \in HeadTexts, p \in ParameterTexts}

\* Every head with the short lists and the outputs, and with the shortest
\* lists, the modifiers and the outputs.
PlainSignatures ==
    {h \o i \o o : h \in HeadTexts, i \in InputTexts \cup {"(bytes)", "(bytes[])"},
                   o \in OutputTexts}
    \cup {h \o i \o m \o o : h \in HeadTexts,
                              i \in {"", "()", "(a)", "(bytes)", "(a[] indexed, a)"},
                              m \in ModifierTexts, o \in OutputTexts}

OddSignatures ==
    {h \o i \o o : h \in OddHeadTexts, i \in {"", "()", "(a)", "(a indexed)"},
                   o \in {"", " view", "(a)"}}
    \cup {"f()()a", "f()[1]", "f()(a)[1]", "f() view;", "f(a) ;\n", "f() returnsx",
          "f() view returns(a)", "f() view(a)", " f ( a ) view\n", "f view", "f(a"}

\* Signatures with tuples in their lists.
DeepSignatures ==
    {"f((a)[2] x, a)", "f(((a), a) y) returns ((a)[])", "event f((a) indexed x)"}

SignatureTexts == RichSignatures \cup PlainSignatures \cup OddSignatures
                  \cup DeepSignatures

FieldTexts ==
    {"a x;", "bytes[2] y ;", "[1] z;", "a memory;", "a indexed;", "a;", "a x", "(a) x;"}

StructTexts ==
    {"struct" \o n \o "{" \o f \o "}" \o t :
        n \in {"", " s", "s ", " memory ", " indexedx"},
        f \in {"", " "} \cup ListsOf(FieldTexts, MaxParams, " "),
        t \in {"", ";"}}
    \cup {"struct s", "struct s{", "struct s{a x;}}", "s{a x;}"}

\* The longest run of array groups after a type that is written out.
MaxGroups == 2

\* An array group the grammar accepts, with the entry it stands for.
GoodGroups ==
    {[txt |-> "[]", val |-> -1], [txt |-> "[2]", val |-> 2],
     [txt |-> "[03]", val |-> 3], [txt |-> "[10]", val |-> 10]}

\* A bound of zero, a sign, a letter, whitespace inside the brackets, a
\* missing "]", and bounds past the range of int and of uint64.
BadGroups ==
    {"[0]", "[00]", "[-1]", "[a]", "[ ]", "[ 2]", "[2 ]", "[2", "[",
     "[9223372036854775808]", "[18446744073709551616]"}

\* The runs of at most n accepted groups: the text and the entries in order.
RECURSIVE GroupRuns(_)
GroupRuns(n) ==
    IF n = 0 THEN {[txt |-> "", vals |-> <<>>]}
    ELSE GroupRuns(n - 1)
         \cup {[txt |-> r.txt \o g.txt, vals |-> Append(r.vals, g.val)] :
                  r \in GroupRuns(n - 1), g \in GoodGroups}

\* A type, a run of accepted groups, at most one rejected group, and a name.
\* The runs of up to MaxGroups groups.
ArrayRuns == GroupRuns(MaxGroups)

ArraySuffixTexts ==
    {"a" \o r.txt \o b \o n : r \in ArrayRuns,
                              b \in {""} \cup BadGroups, n \in {"", " x"}}

Texts == ParameterTexts \cup SignatureTexts \cup StructTexts \cup ArraySuffixTexts

-----------------------------------------------------------------------------
(* The state machine: a caller holds a text in, calls one entry point on   *)
(* it, prints the value it got with String and parses the printed text     *)
(* again.                                                                  *)

NoResult == [err |-> TRUE, val |-> <<>>]

Init ==
    /\ in \in Texts
    /\ call = "none"
    /\ kind = UnknownKind
    /\ res = NoResult
    /\ text = ""
    /\ back = NoResult

CallParseSignatureAs(k) ==
    /\ call = "none"
    /\ call' = "ParseSignatureAs"
    /\ kind' = k
    /\ res' = ParseSignatureAs(k, in)
    /\ UNCHANGED <<in, text, back>>

CallParseParameter ==
    /\ call = "none"
    /\ call' = "ParseParameter"
    /\ res' = ParseParameter(in)
    /\ UNCHANGED <<in, kind, text, back>>

CallParseStruct ==
    /\ call = "none"
    /\ call' = "ParseStruct"
    /\ res' = ParseStruct(in)
    /\ UNCHANGED <<in, kind, text, back>>

CallKind ==
    /\ call = "none"
    /\ call' = "Kind"
    /\ res' = [err |-> FALSE, val |-> Kind(in)]
    /\ UNCHANGED <<in, kind, text, back>>

\* Signature.String of a parsed signature, then ParseSignature of the text.
PrintSignature ==
    /\ call = "ParseSignatureAs"
    /\ ~res.err
    /\ call' = "SignatureString"
    /\ text' = SignatureString(res.val)
    /\ back' = ParseSignature(text')
    /\ UNCHANGED <<in, kind, res>>

\* Parameter.String of a parsed parameter or struct, then ParseParameter of
\* the text.
PrintParameter ==
    /\ call \in {"ParseParameter", "ParseStruct"}
    /\ ~res.err
    /\ call' = IF call = "ParseStruct" THEN "StructString" ELSE "ParameterString"
    /\ text' = ParameterString(res.val)
    /\ back' = ParseParameter(text')
    /\ UNCHANGED <<in, kind, res>>

\* The longest text a caller edits and parses again.
MaxEdited == 20

\* The runs of whitespace a caller writes into a text.
WhitespaceRuns == {" ", "\t\n"}

\* s with w written in at position i, and s without its bytes i..j-1.
Insert(s, i, w) == Slice(s, 0, i) \o w \o Slice(s, i, Len(s))

Remove(s, i, j) == Slice(s, 0, i) \o Slice(s, j, Len(s))

\* The bytes i..j-1 of s are whitespace, and there is at least one.
IsWhitespaceRun(s, i, j) ==
    /\ 0 <= i /\ i < j /\ j <= Len(s)
    /\ \A k \in i..(j - 1) : isWhitespace(peek(s, k))

\* ParseSignature of an accepted text with a run of whitespace written in
\* at some position.
InsertWhitespace ==
    /\ call = "ParseSignatureAs"
    /\ kind = UnknownKind
    /\ ~res.err
    /\ Len(in) <= MaxEdited
    /\ call' = "InsertWhitespace"
    /\ \E i \in 0..Len(in), w \in WhitespaceRuns : text' = Insert(in, i, w)
    /\ back' = ParseSignature(text')
    /\ UNCHANGED <<in, kind, res>>

\* ParseSignature of an accepted text with a run of whitespace, or a part
\* of one, taken out.
RemoveWhitespace ==
    /\ call = "ParseSignatureAs"
    /\ kind = UnknownKind
    /\ ~res.err
    /\ Len(in) <= MaxEdited
    /\ call' = "RemoveWhitespace"
    /\ \E i \in 0..Len(in), j \in 0..Len(in) :
           /\ IsWhitespaceRun(in, i, j)
           /\ text' = Remove(in, i, j)
    /\ back' = ParseSignature(text')
    /\ UNCHANGED <<in, kind, res>>

\* The keyword parseSignatureKind reads for a kind other than UnknownKind.
KindKeyword(k) ==
    CASE k = FunctionKind -> "function"
      [] k = ConstructorKind -> "constructor"
      [] k = FallbackKind -> "fallback"
      [] k = ReceiveKind -> "receive"
      [] k = EventKind -> "event"
      [] k = ErrorKind -> "error"

\* ParseSignature of the text with the keyword of the kind that
\* ParseSignatureAs was called with written before it.
WithKeyword ==
    /\ call = "ParseSignatureAs"
    /\ kind # UnknownKind
    /\ Len(in) <= MaxEdited
    /\ call' = "WithKeyword"
    /\ text' = KindKeyword(kind) \o " " \o in
    /\ back' = ParseSignature(text')
    /\ UNCHANGED <<in, kind, res>>

\* The texts of whitespace and ";" a caller writes after a text.
TrailingTexts == {";", " ", "\t\n;", "; ;"}

\* The entry point that accepted the text, called on the text with
\* whitespace and ";" written after it.
AppendTrailing ==
    /\ \/ call = "ParseSignatureAs" /\ kind = UnknownKind
       \/ call \in {"ParseParameter", "ParseStruct"}
    /\ ~res.err
    /\ Len(in) <= MaxEdited
    /\ call' = (CASE call = "ParseSignatureAs" -> "TrailingSignature"
                  [] call = "ParseParameter" -> "TrailingParameter"
                  [] call = "ParseStruct" -> "TrailingStruct")
    /\ \E t \in TrailingTexts : text' = in \o t
    /\ back' = (CASE call = "ParseSignatureAs" -> ParseSignature(text')
                  [] call = "ParseParameter" -> ParseParameter(text')
                  [] call = "ParseStruct" -> ParseStruct(text'))
    /\ UNCHANGED <<in, kind, res>>

\* After Kind has classified the text, the three parsers it chooses between
\* are called on the text.
TryParsers ==
    /\ call = "Kind"
    /\ call' = "KindParsers"
    /\ back' = [param |-> ParseParameter(in),
                sig |-> ParseSignature(in),
                struct |-> ParseStruct(in)]
    /\ UNCHANGED <<in, kind, res, text>>

\* The cursor of parseSignature when it calls parseOutputs on s, after the
\* keyword, the name, the inputs and the modifiers: returns tells whether
\* parseOutputs reads the returns keyword, pos is where the keyword starts,
\* and inputs tells whether parseInputs read an input list.
returnsKeyword(s) ==
    With(parseSignatureKind(s, parseWhitespace(s, 0)), LAMBDA kw :
        With(parseWhitespace(s, parseName(s, parseWhitespace(s, kw.pos))), LAMBDA p1 :
            With(parseInputs(s, p1), LAMBDA inputs :
                IF inputs.err THEN [returns |-> FALSE, pos |-> p1, inputs |-> FALSE]
                ELSE With(parseModifiers(s, parseWhitespace(s, inputs.pos)), LAMBDA mods :
                         With(parseWhitespace(s, mods.pos), LAMBDA p2 :
                             [returns |-> peekBytes(s, p2, "returns"),
                              pos |-> p2,
                              inputs |-> peekByte(s, p1, "(")])))))

\* ParseSignature of an accepted text with its returns keyword taken out.
DeleteReturns ==
    /\ call = "ParseSignatureAs"
    /\ kind = UnknownKind
    /\ ~res.err
    /\ returnsKeyword(in).returns
    /\ call' = "DeleteReturns"
    /\ text' = Remove(in, returnsKeyword(in).pos,
                      returnsKeyword(in).pos + Len("returns"))
    /\ back' = ParseSignature(text')
    /\ UNCHANGED <<in, kind, res>>

\* The number of "(" less the number of ")" among the first i bytes of s.
RECURSIVE ParenDepth(_, _)
ParenDepth(s, i) ==
    IF i = 0 THEN 0
    ELSE ParenDepth(s, i - 1)
         + (IF peek(s, i - 1) = "(" THEN 1 ELSE IF peek(s, i - 1) = ")" THEN -1 ELSE 0)

\* The byte at i opens a tuple type written without the tuple keyword: a
\* "(" that does not follow the keyword and stands at depth min or deeper.
OpensTuple(s, i, min) ==
    /\ peekByte(s, i, "(")
    /\ ~(i >= Len("tuple") /\ Slice(s, i - Len("tuple"), i) = "tuple")
    /\ ParenDepth(s, i) >= min

\* The same parser on an accepted text with the tuple keyword written before
\* one of its tuple types: any "(" of a parameter, and any "(" inside the
\* input or output list of a signature.
WriteTuple ==
    /\ call \in {"ParseSignatureAs", "ParseParameter"}
    /\ call = "ParseSignatureAs" => kind = UnknownKind
    /\ ~res.err
    /\ \E i \in 0..(Len(in) - 1) :
          /\ OpensTuple(in, i, IF call = "ParseSignatureAs" THEN 1 ELSE 0)
          /\ text' = Insert(in, i, "tuple")
    /\ call' = (IF call = "ParseSignatureAs" THEN "TupleSignature" ELSE "TupleParameter")
    /\ back' = (IF call = "ParseSignatureAs" THEN ParseSignature(text')
                ELSE ParseParameter(text'))
    /\ UNCHANGED <<in, kind, res>>

Next ==
    \/ \E k \in SignatureKinds : CallParseSignatureAs(k)
    \/ CallParseParameter
    \/ CallParseStruct
    \/ CallKind
    \/ PrintSignature
    \/ PrintParameter
    \/ InsertWhitespace
    \/ RemoveWhitespace
    \/ WithKeyword
    \/ AppendTrailing
    \/ TryParsers
    \/ DeleteReturns
    \/ WriteTuple

Spec == Init /\ [][Next]_vars

-----------------------------------------------------------------------------
(* The vocabulary of the properties.                                       *)

\* parseSignature's signature before the validation, for the text and the
\* kind of the call, and whether only whitespace and ";" follow it.
Syntax == parseSignatureSyntax(in, parseWhitespace(in, 0), kind)

WellFormed(syn) == ~syn.err /\ onlyWhitespaceOrDelimiterLeft(in, syn.pos)

AnyIndexed(ps) == \E i \in 1..Len(ps) : ps[i].Indexed

AnyLocation(ps) == \E i \in 1..Len(ps) : ps[i].DataLocation # UnspecifiedLocation

\* p and every parameter below it.
RECURSIVE Nested(_)
Nested(p) == {p} \cup UNION {Nested(p.Tuple[i]) : i \in 1..Len(p.Tuple)}

NestedIn(ps) == UNION {Nested(ps[i]) : i \in 1..Len(ps)}

\* Every parameter of the value the call returned, at every depth.
ResultParameters ==
    IF call = "ParseSignatureAs"
    THEN NestedIn(res.val.Inputs) \cup NestedIn(res.val.Outputs)
    ELSE Nested(res.val)

\* The text holds an empty tuple: "(" and ")" with only whitespace between.
HasEmptyTuple(s) ==
    \E i \in 0..(Len(s) - 1) :
        peekByte(s, i, "(") /\ peekByte(s, parseWhitespace(s, i + 1), ")")

\* A single bytes value: the type name bytes, not an array, not a tuple.
IsSingleBytes(p) == p.Type = "bytes" /\ p.Arrays = <<>> /\ p.Tuple = <<>>

-----------------------------------------------------------------------------
(* The properties.                                                         *)

\* C1: a signature that ParseSignature returned, printed with String and
\* parsed again with ParseSignature, is returned again without an error and
\* equal in Kind, Name, Inputs, Outputs and Modifiers.
C1_SignatureRoundTrip ==
    (call = "SignatureString" /\ kind = UnknownKind)
        => (~back.err /\ back.val = res.val)

\* C1 witness: a signature with inputs, modifiers and outputs was printed to
\* a text other than the one it was parsed from, and parsed again.
C1_Witness ==
    /\ call = "SignatureString"
    /\ kind = UnknownKind
    /\ text # in
    /\ Len(res.val.Inputs) > 1
    /\ Len(res.val.Modifiers) > 1
    /\ Len(res.val.Outputs) > 0

C4_ErrorNeedsInputs ==
    (call = "ParseSignatureAs" /\ kind = UnknownKind /\ ~res.err
     /\ res.val.Kind = ErrorKind)
        => Len(res.val.Inputs) > 0

\* C5: a fallback signature without indexed parameters is accepted exactly
\* when its name is empty and either it has no inputs and no outputs or it
\* has one input and one output, each a single bytes value.
C5_FallbackRule ==
    call = "ParseSignatureAs" =>
        LET syn == Syntax IN
        (/\ WellFormed(syn)
         /\ syn.sig.Kind = FallbackKind
         /\ \A p \in NestedIn(syn.sig.Inputs) \cup NestedIn(syn.sig.Outputs) :
                ~p.Indexed)
            => (~res.err <=>
                   /\ syn.sig.Name = ""
                   /\ \/ syn.sig.Inputs = <<>> /\ syn.sig.Outputs = <<>>
                      \/ /\ Len(syn.sig.Inputs) = 1
                         /\ Len(syn.sig.Outputs) = 1
                         /\ IsSingleBytes(syn.sig.Inputs[1])
                         /\ IsSingleBytes(syn.sig.Outputs[1]))

\* C6: an event signature is accepted exactly when it has inputs, has no
\* outputs, has no modifiers or the one modifier anonymous, and no input has
\* a data location; whatever its name, and whether or not inputs are indexed.
C6_EventRule ==
    call = "ParseSignatureAs" =>
        LET syn == Syntax IN
        (WellFormed(syn) /\ syn.sig.Kind = EventKind)
            => (~res.err <=>
                   /\ syn.sig.Inputs # <<>>
                   /\ syn.sig.Outputs = <<>>
                   /\ syn.sig.Modifiers \in {<<>>, <<"anonymous">>}
                   /\ ~AnyLocation(syn.sig.Inputs))

\* C6 witness: a named anonymous event with an indexed input was accepted.
C6_Witness ==
    /\ call = "ParseSignatureAs"
    /\ ~res.err
    /\ res.val.Kind = EventKind
    /\ res.val.Name # ""
    /\ res.val.Modifiers = <<"anonymous">>
    /\ AnyIndexed(res.val.Inputs)

\* C7: a constructor signature is accepted exactly when its name, its
\* modifiers and its outputs are empty and no input is indexed.
C7_ConstructorRule ==
    call = "ParseSignatureAs" =>
        LET syn == Syntax IN
        (WellFormed(syn) /\ syn.sig.Kind = ConstructorKind)
            => (~res.err <=>
                   /\ syn.sig.Name = ""
                   /\ syn.sig.Modifiers = <<>>
                   /\ syn.sig.Outputs = <<>>
                   /\ ~AnyIndexed(syn.sig.Inputs))

\* C7 witness: a constructor with two inputs, one with a data location, was
\* accepted.
C7_Witness ==
    /\ call = "ParseSignatureAs"
    /\ ~res.err
    /\ res.val.Kind = ConstructorKind
    /\ Len(res.val.Inputs) = 2
    /\ AnyLocation(res.val.Inputs)

\* C8: a receive signature is accepted exactly when its name, its inputs
\* and its outputs are empty, whatever its modifiers.
C8_ReceiveRule ==
    call = "ParseSignatureAs" =>
        LET syn == Syntax IN
        (WellFormed(syn) /\ syn.sig.Kind = ReceiveKind)
            => (~res.err <=>
                   /\ syn.sig.Name = ""
                   /\ syn.sig.Inputs = <<>>
                   /\ syn.sig.Outputs = <<>>)

\* C8 witness: a receive signature with modifiers was accepted.
C8_Witness ==
    /\ call = "ParseSignatureAs"
    /\ ~res.err
    /\ res.val.Kind = ReceiveKind
    /\ Len(res.val.Modifiers) > 1

\* C9: an error signature is accepted only if its outputs and its modifiers
\* are empty and no input has a data location; and one with inputs, none of
\* them indexed, that meets these conditions is accepted whatever its name.
C9_ErrorRule ==
    call = "ParseSignatureAs" =>
        LET syn == Syntax
            rule == /\ syn.sig.Outputs = <<>>
                    /\ syn.sig.Modifiers = <<>>
                    /\ ~AnyLocation(syn.sig.Inputs)
        IN  (WellFormed(syn) /\ syn.sig.Kind = ErrorKind)
                => /\ ~res.err => rule
                   /\ (rule /\ syn.sig.Inputs # <<>> /\ ~AnyIndexed(syn.sig.Inputs))
                         => ~res.err

\* C9 witness: a named error with two inputs was accepted.
C9_Witness ==
    /\ call = "ParseSignatureAs"
    /\ ~res.err
    /\ res.val.Kind = ErrorKind
    /\ res.val.Name # ""
    /\ Len(res.val.Inputs) = 2

\* C10: no parameter that ParseParameter, ParseStruct or ParseSignature
\* returned, at any depth, has both a type and tuple elements, and one has
\* neither only when the text holds an empty tuple.
C10_TypeOrTuple ==
    (/\ call \in {"ParseParameter", "ParseStruct", "ParseSignatureAs"}
     /\ call = "ParseSignatureAs" => kind = UnknownKind
     /\ ~res.err)
        => \A p \in ResultParameters :
               /\ ~(p.Type # "" /\ p.Tuple # <<>>)
               /\ (p.Type = "" /\ p.Tuple = <<>>) => HasEmptyTuple(in)

\* C11: every entry of Arrays in a returned parameter, at any depth, is -1 or
\* at least 1; a type followed directly by a run of groups "[]" and "[N]"
\* is parsed to one entry for each group in the order written, -1 for "[]"
\* and N for "[N]"; and the parse fails when the run is followed by a group
\* with a bound of zero, a bound out of the range of int, a byte other than
\* a digit inside the brackets, or no "]".
C11_ArraySuffix ==
    /\ (call \in {"ParseParameter", "ParseStruct", "ParseSignatureAs"} /\ ~res.err)
          => \A p \in ResultParameters :
                 \A i \in 1..Len(p.Arrays) : p.Arrays[i] = -1 \/ p.Arrays[i] >= 1
    /\ (call = "ParseParameter" /\ in \in ArraySuffixTexts)
          => \A r \in ArrayRuns, n \in {"", " x"} :
                 /\ in = "a" \o r.txt \o n
                       => (~res.err /\ res.val.Arrays = r.vals)
                 /\ \A b \in BadGroups : in = "a" \o r.txt \o b \o n => res.err

\* C11 witness: a type with the groups "[03]" and "[]" and a name was parsed
\* to the entries 3 and -1.
C11_Witness ==
    /\ call = "ParseParameter"
    /\ ~res.err
    /\ res.val.Arrays = <<3, -1>>
    /\ res.val.Name = "x"

\* The byte of s at position i, and "" outside the text.
ByteAt(s, i) == IF 0 <= i /\ i < Len(s) THEN Slice(s, i, i + 1) ELSE ""

\* A byte of an identifier or of a number.
IsWordByte(c) == isAlpha(c) \/ isDigit(c) \/ isIdentifierSymbol(c)

\* Position i of s is not inside an identifier or a number.
TokenBoundary(s, i) == ~(IsWordByte(ByteAt(s, i - 1)) /\ IsWordByte(ByteAt(s, i)))

\* Taking the bytes i..j-1 out of s leaves whitespace beside them, or does
\* not run two identifiers together.
NotNeeded(s, i, j) ==
    \/ isWhitespace(ByteAt(s, i - 1))
    \/ isWhitespace(ByteAt(s, j))
    \/ ~(IsWordByte(ByteAt(s, i - 1)) /\ IsWordByte(ByteAt(s, j)))

\* Position i of s is not directly before "[", not inside the brackets of
\* an array group, and not between the word tuple and its "(".
OutsideType(s, i) ==
    /\ ByteAt(s, i) # "["
    /\ ByteAt(s, i - 1) # "["
    /\ ByteAt(s, i) # "]"
    /\ ~(ByteAt(s, i) = "(" /\ i >= Len("tuple") /\ Slice(s, i - Len("tuple"), i) = "tuple")

\* The bytes i..j-1 of s do not part a ")" or a "]" from an identifier that
\* follows it, or they leave whitespace between the two.
NotAfterType(s, i, j) ==
    \/ isWhitespace(ByteAt(s, i - 1))
    \/ isWhitespace(ByteAt(s, j))
    \/ ~(ByteAt(s, i - 1) \in {")", "]"} /\ IsWordByte(ByteAt(s, j)))

\* The edited text was accepted and gave the signature the text gave.
SameSignature == ~back.err /\ back.val = res.val

KeywordOf(s) ==
    LET start == parseWhitespace(s, 0)
        found == {k \in SignatureKinds \ {UnknownKind} :
                     peekBytes(s, start, KindKeyword(k))}
    IN  IF found = {} THEN UnknownKind ELSE CHOOSE k \in found : TRUE

\* C13: ParseSignatureAs called with a kind other than UnknownKind fails on
\* a text that starts with the keyword of another kind; on a text without a
\* keyword it returns the kind it was called with, and fails or returns the
\* signature exactly as ParseSignature does on the text with that kind's
\* keyword written before it; called with UnknownKind it returns the kind of
\* the text's keyword, and UnknownKind when the text has none.
C13_KindRule ==
    /\ call = "ParseSignatureAs"
          => /\ (/\ kind # UnknownKind
                 /\ KeywordOf(in) # UnknownKind
                 /\ KeywordOf(in) # kind) => res.err
             /\ (KeywordOf(in) = UnknownKind /\ ~res.err) => res.val.Kind = kind
             /\ (kind = UnknownKind /\ ~res.err) => res.val.Kind = KeywordOf(in)
    /\ (call = "WithKeyword" /\ KeywordOf(in) = UnknownKind) => back = res

\* C13 witness: a text without a keyword was accepted as an event with an
\* indexed input, and so was the text with the keyword event before it.
C13_Witness ==
    /\ call = "WithKeyword"
    /\ kind = EventKind
    /\ KeywordOf(in) = UnknownKind
    /\ ~res.err
    /\ res.val.Kind = EventKind
    /\ AnyIndexed(res.val.Inputs)
    /\ back = res

\* From position pos on, s has a byte other than space, tab, newline, ";".
OtherByteLeft(s, pos) ==
    \E i \in pos..(Len(s) - 1) : ByteAt(s, i) \notin {" ", "\t", "\n", ";"}

\* The edited text was accepted and gave the value the text gave.
SameValue == ~back.err /\ back.val = res.val

\* C14: when the grammar of ParseSignatureAs, ParseParameter or ParseStruct
\* has parsed its construct from the text, the call fails exactly when a
\* byte other than space, tab, newline and ";" is left after it; and an
\* accepted text with any such bytes written after it is accepted with the
\* same value.
C14_TrailingInput ==
    /\ call = "ParseSignatureAs"
          => LET r == parseSignature(in, parseWhitespace(in, 0), kind)
             IN  ~r.err => (res.err <=> OtherByteLeft(in, r.pos))
    /\ call = "ParseParameter"
          => LET r == parseParameter(in, parseWhitespace(in, 0))
             IN  ~r.err => (res.err <=> OtherByteLeft(in, r.pos))
    /\ call = "ParseStruct"
          => LET r == parseStruct(in, parseWhitespace(in, 0))
             IN  ~r.err => (res.err <=> OtherByteLeft(in, r.pos))
    /\ call \in {"TrailingSignature", "TrailingParameter", "TrailingStruct"}
          => SameValue

\* C14 witness: a struct with a field was accepted again, with the same
\* value, with a tab, a newline and ";" written after it.
C14_Witness ==
    /\ call = "TrailingStruct"
    /\ text = in \o "\t\n;"
    /\ Len(res.val.Tuple) > 0
    /\ SameValue

\* C15: Kind classifies a text as a parameter exactly when ParseParameter
\* accepts it; a text classified as a signature is accepted by
\* ParseSignature and one classified as a struct by ParseStruct; and Kind
\* returns InvalidInput exactly when the three parsers all reject the text.
C15_KindAgreesWithParsers ==
    call = "KindParsers"
        => /\ IsParameter(res.val) <=> ~back.param.err
           /\ IsSignature(res.val) => ~back.sig.err
           /\ IsStruct(res.val) => ~back.struct.err
           /\ res.val = InvalidInput
                  <=> (back.param.err /\ back.sig.err /\ back.struct.err)

\* C15 witness: ParseParameter accepted a tuple with a component and Kind
\* classified the text as a parameter.
C15_Witness ==
    /\ call = "KindParsers"
    /\ ~back.param.err
    /\ Len(back.param.val.Tuple) > 0
    /\ back.param.val.Arrays = <<>>
    /\ IsParameter(res.val)

\* The classification of an accepted parameter by the branches of Kind.
ParameterKind(p) ==
    IF Len(p.Arrays) > 0 THEN ArrayInput
    ELSE IF Len(p.Tuple) > 0 THEN TupleInput
    ELSE TypeInput

\* C16: Kind returns the classification of the first of the parameter, the
\* signature and the struct grammar that accepts the text, so a text that
\* both ParseParameter and ParseSignature accept is classified as a
\* parameter and never as a signature.
C16_KindPrecedence ==
    call = "KindParsers"
        => /\ ~back.param.err
                  => /\ res.val = ParameterKind(back.param.val)
                     /\ ~IsSignature(res.val)
           /\ (back.param.err /\ ~back.sig.err)
                  => res.val = SignatureInputKind(back.sig.val.Kind)
           /\ (back.param.err /\ back.sig.err /\ ~back.struct.err)
                  => res.val = StructDefinitionInput

\* C16 witness: the text "function f" was accepted by ParseParameter and by
\* ParseSignature, and Kind classified it as a type.
C16_Witness ==
    /\ call = "KindParsers"
    /\ in = "function f"
    /\ ~back.param.err
    /\ ~back.sig.err
    /\ back.sig.val.Kind = FunctionKind
    /\ res.val = TypeInput

\* C17: for a text ParseParameter accepts, Kind returns ArrayInput when the
\* parameter has an array dimension, TupleInput when it has none and was
\* written with parentheses (its Type is empty), and TypeInput when it has
\* none and has a type name.
C17_ParameterShape ==
    (call = "KindParsers" /\ ~back.param.err)
        => /\ Len(back.param.val.Arrays) > 0 => res.val = ArrayInput
           /\ (back.param.val.Arrays = <<>> /\ back.param.val.Type = "")
                  => res.val = TupleInput
           /\ (back.param.val.Arrays = <<>> /\ back.param.val.Type # "")
                  => res.val = TypeInput

\* The cursor c is inside the text s or at its end, and the byte at the
\* cursor was read only when the cursor is before the end.
SafeCursor(s, c) ==
    /\ c.pos \in 0..Len(s)
    /\ c.peek => c.pos < Len(s)

\* C18: ParseSignatureAs, ParseParameter, ParseStruct and every attempt of
\* Kind return with the cursor between 0 and the length of the text, and a
\* returned error's message reads the byte at the cursor only when the
\* cursor is before the end of the text.
C18_NoPanic ==
    /\ call = "ParseSignatureAs" => SafeCursor(in, ParseSignatureAsCursor(kind, in))
    /\ call = "ParseParameter" => SafeCursor(in, ParseParameterCursor(in))
    /\ call = "ParseStruct" => SafeCursor(in, ParseStructCursor(in))
    /\ call = "Kind"
          => LET cursors == KindCursors(in)
             IN  \A i \in 1..Len(cursors) : SafeCursor(in, cursors[i])

\* C18 witness: ParseParameter failed on a text that ends inside a type;
\* the cursor stood at the end of the text and no byte was read there.
C18_Witness ==
    /\ call = "ParseParameter"
    /\ res.err
    /\ Len(in) > 0
    /\ ParseParameterCursor(in).pos = Len(in)
    /\ ~ParseParameterCursor(in).peek
    /\ parseParameter(in, 0).err

\* C19 as claimed: an accepted signature text with the returns keyword
\* before its output list is accepted without the keyword, with the same
\* signature.
C19_ReturnsOptional ==
    call = "DeleteReturns" => SameSignature

\* C19: an accepted signature text that has an input list or a modifier
\* and the returns keyword before its output list is accepted without the
\* keyword, with the same signature.
C19_ReturnsOptionalAfterInputs ==
    (/\ call = "DeleteReturns"
     /\ (returnsKeyword(in).inputs \/ res.val.Modifiers # <<>>))
        => SameSignature

\* C19 witness: a text with an input list, the returns keyword and two
\* outputs was accepted without the keyword, with the same signature.
C19_Witness ==
    /\ call = "DeleteReturns"
    /\ returnsKeyword(in).inputs
    /\ Len(res.val.Outputs) = 2
    /\ text # in
    /\ SameSignature

\* C20: an accepted parameter text, and an accepted signature text, with
\* the tuple keyword written directly before the "(" of one of its tuple
\* types, at any depth, is accepted by the same parser with the same value.
C20_TupleKeywordOptional ==
    call \in {"TupleSignature", "TupleParameter"} => SameValue

\* C20 witness: a parameter text with a tuple inside a tuple that has an
\* array suffix and a name was accepted with the keyword written before the
\* inner tuple, with the same value.
C20_Witness ==
    /\ call = "TupleParameter"
    /\ \E i \in 1..(Len(in) - 1) :
          /\ OpensTuple(in, i, 1)
          /\ text = Insert(in, i, "tuple")
    /\ Len(res.val.Arrays) > 0
    /\ res.val.Name # ""
    /\ SameValue

\* C21: a parameter that ParseStruct returned has an empty Type, a Name
\* that is not empty, and a Tuple that is not empty whose fields all have a
\* Name; and ParseStruct fails on a struct with a field that has no name or
\* no ";" after it.
C21_StructShape ==
    call = "ParseStruct"
        => /\ ~res.err
                 => /\ res.val.Type = ""
                    /\ res.val.Name # ""
                    /\ res.val.Tuple # <<>>
                    /\ \A i \in 1..Len(res.val.Tuple) : res.val.Tuple[i].Name # ""
           /\ in \in {"struct s{a;}", "struct s{a x}", "struct s{a x; a;}",
                      "struct s{a x; a x}"} => res.err

\* The texts of seq written one after the other with sep between them.
RECURSIVE JoinWith(_, _)
JoinWith(seq, sep) ==
    IF seq = <<>> THEN ""
    ELSE IF Len(seq) = 1 THEN seq[1]
    ELSE seq[1] \o sep \o JoinWith(Tail(seq), sep)

\* The printed texts of the parameters ps, in order.
ParameterStrings(ps) == [i \in 1..Len(ps) |-> ParameterString(ps[i])]

\* The keyword and name a printed signature starts with.
CanonicalHead(sig) ==
    IF sig.Kind = FunctionKind THEN "function " \o sig.Name
    ELSE IF sig.Kind = EventKind THEN "event " \o sig.Name
    ELSE IF sig.Kind = ErrorKind THEN "error " \o sig.Name
    ELSE IF sig.Kind = ConstructorKind THEN "constructor"
    ELSE IF sig.Kind = FallbackKind THEN "fallback"
    ELSE IF sig.Kind = ReceiveKind THEN "receive"
    ELSE sig.Name

\* s holds the text t.
Contains(s, t) == \E i \in 0..(Len(s) - Len(t)) : Slice(s, i, i + Len(t)) = t

\* C22: Signature.String of a parsed signature is the kind keyword and the
\* name, "(", the inputs joined by ", ", ")", then a space and the modifiers
\* joined by single spaces when there are modifiers, then " returns (", the
\* outputs joined by ", " and ")" when there are outputs; so a signature
\* parsed from a text without parentheses is printed with "()", and one
\* with outputs is printed with the returns keyword.
C22_CanonicalString ==
    call = "SignatureString"
        => /\ text = CanonicalHead(res.val)
                     \o "(" \o JoinWith(ParameterStrings(res.val.Inputs), ", ") \o ")"
                     \o (IF res.val.Modifiers = <<>> THEN ""
                         ELSE " " \o JoinWith(res.val.Modifiers, " "))
                     \o (IF res.val.Outputs = <<>> THEN ""
                         ELSE " returns ("
                              \o JoinWith(ParameterStrings(res.val.Outputs), ", ")
                              \o ")")
           /\ ~Contains(in, "(") => Contains(text, "()")
           /\ res.val.Outputs # <<>> => Contains(text, " returns (")

\* C22 witness: a signature parsed from a text without the returns keyword,
\* with modifiers and outputs, was printed with the keyword.
C22_Witness ==
    /\ call = "SignatureString"
    /\ ~Contains(in, "returns")
    /\ res.val.Modifiers # <<>>
    /\ Len(res.val.Outputs) > 0
    /\ Contains(text, " returns (")

FlagWords == {"indexed", "storage", "memory", "calldata"}

\* The identifier token that follows the type of the parameter text s and
\* whitespace: ok tells whether s has a type followed by whitespace, token
\* is the identifier (empty when none follows) and end the position after it.
TokenAfterType(s) ==
    LET pos == parseWhitespace(s, 0)
        typ == IF peekByte(s, pos, "(") \/ peekBytes(s, pos, "tuple(")
               THEN parseCompositeType(s, pos)
               ELSE parseElementaryType(s, pos)
    IN  IF ~hasNext(s, pos) \/ typ.err \/ typ.pos = pos
           \/ ~hasNext(s, typ.pos) \/ ~isWhitespace(peek(s, typ.pos))
        THEN [ok |-> FALSE, token |-> "", end |-> 0]
        ELSE LET p == parseWhitespace(s, typ.pos)
             IN  [ok |-> TRUE, token |-> Slice(s, p, parseName(s, p)),
                  end |-> parseName(s, p)]

\* C23: in a parameter text, the identifier after the type and whitespace
\* sets a flag only when it is one of the four flag words, and then it sets
\* that flag and no other; an identifier that is not one of the four words,
\* with nothing but whitespace and ";" after it, is accepted as the Name
\* with no flag set, also when it begins with a flag word.
C23_FlagAndName ==
    (call = "ParseParameter" /\ TokenAfterType(in).ok /\ TokenAfterType(in).token # "")
        => LET t == TokenAfterType(in)
           IN  /\ (t.token \in FlagWords /\ ~res.err)
                      => /\ res.val.Indexed <=> t.token = "indexed"
                         /\ res.val.DataLocation = Storage <=> t.token = "storage"
                         /\ res.val.DataLocation = Memory <=> t.token = "memory"
                         /\ res.val.DataLocation = CallData <=> t.token = "calldata"
               /\ (t.token \notin FlagWords /\ ~res.err)
                      => /\ ~res.val.Indexed
                         /\ res.val.DataLocation = UnspecifiedLocation
               /\ (t.token \notin FlagWords /\ onlyWhitespaceOrDelimiterLeft(in, t.end))
                      => /\ ~res.err
                         /\ res.val.Name = t.token
                         /\ ~res.val.Indexed
                         /\ res.val.DataLocation = UnspecifiedLocation

KindKeywords == {KindKeyword(k) : k \in SignatureKinds \ {UnknownKind}}

\* The identifier the signature text s starts with, after whitespace, and
\* the text after it.
FirstToken(s) ==
    LET p == parseWhitespace(s, 0)
        e == parseName(s, p)
    IN  [token |-> Slice(s, p, e), rest |-> Slice(s, e, Len(s))]

\* C24: a signature text that starts with an identifier that is not a kind
\* keyword, and that ParseSignature accepts with unknown kind when the
\* identifier is written as f, is accepted with unknown kind, the
\* whole identifier as its Name and the same lists and modifiers, also when
\* the identifier begins with the letters of a keyword.
C24_KeywordIsToken ==
    (call = "ParseSignatureAs" /\ kind = UnknownKind)
        => LET t == FirstToken(in)
               ref == ParseSignature("f" \o t.rest)
           IN  (t.token # "" /\ t.token \notin KindKeywords /\ ~ref.err)
                   => /\ ~res.err
                      /\ res.val = [ref.val EXCEPT !.Name = t.token]

\* C25: in an accepted signature of kind function, constructor, fallback,
\* receive or error, no parameter of the inputs or the outputs, at any depth,
\* is indexed; and in an accepted event or error signature no parameter of
\* the inputs, at any depth, has a data location.
C25_RestrictionsAtEveryDepth ==
    (call = "ParseSignatureAs" /\ ~res.err)
        => /\ res.val.Kind \in {FunctionKind, ConstructorKind, FallbackKind,
                                ReceiveKind, ErrorKind}
                 => \A p \in NestedIn(res.val.Inputs) \cup NestedIn(res.val.Outputs) :
                        ~p.Indexed
           /\ res.val.Kind \in {EventKind, ErrorKind}
                 => \A p \in NestedIn(res.val.Inputs) :
                        p.DataLocation = UnspecifiedLocation

\* The cursor moved from p to q without going back or past the end of s.
Forward(s, p, q) == p <= q /\ q <= Len(s)

\* C26: started at any position of the text, parseWhitespace, parseName,
\* parseNumber, parseArray, parseModifiers and parseParameter return with the
\* cursor at or after the position they started at, and so do parseStruct
\* and parseSignature started where Kind starts them; every loop takes at
\* least one byte for each element it appends (array group, tuple element,
\* modifier, struct field), so the number of elements is at most the number
\* of bytes taken; and Kind makes at most three attempts.
C26_CursorProgress ==
    call = "Kind"
        => /\ Len(KindCursors(in)) \in 1..3
           /\ \A p \in 0..Len(in) :
                 /\ Forward(in, p, parseWhitespace(in, p))
                 /\ Forward(in, p, parseName(in, p))
                 /\ Forward(in, p, scanDigits(in, p))
                 /\ LET a == parseArray(in, p)
                    IN  /\ Forward(in, p, a.pos)
                        /\ ~a.err => Len(a.arr) <= a.pos - p
                 /\ LET m == parseModifiers(in, p)
                    IN  /\ Forward(in, p, m.pos)
                        /\ Len(m.mods) <= m.pos - p
                        /\ \A i \in 1..Len(m.mods) : m.mods[i] # ""
                 /\ LET r == parseParameter(in, p)
                    IN  /\ Forward(in, p, r.pos)
                        /\ ~r.err => (p < r.pos /\ Len(r.arg.Tuple) <= r.pos - p)
           /\ LET p == parseWhitespace(in, 0)
                  r == parseStruct(in, p)
              IN  /\ Forward(in, p, r.pos)
                  /\ ~r.err => Len(r.arg.Tuple) <= r.pos - p
                  /\ Forward(in, p, parseSignature(in, p, UnknownKind).pos)

\* C26 witness: Kind made its three attempts on a struct with two fields,
\* and the struct grammar took the whole text.
C26_Witness ==
    /\ call = "Kind"
    /\ res.val = StructDefinitionInput
    /\ Len(KindCursors(in)) = 3
    /\ KindCursors(in)[3].pos = Len(in)
    /\ Len(ParseStruct(in).val.Tuple) = 2

====
